---- MODULE Spec2Model ----
(***************************************************************************)
(* Model of the CodeLoops summarization agent                              *)
(* (src/agents/summarize/agent.py): the reply normaliser                   *)
(* parse_and_normalize_reply with its helper _first_json_object, and the   *)
(* coordinator summarise with the command-line entry point main.           *)
(*                                                                         *)
(* A Python str is a sequence of one-character strings.  A Python value    *)
(* obtained from JSON is a record [k |-> kind, s |-> text]: for kind "str" *)
(* the text is the decoded string, for every other kind it is the JSON     *)
(* lexeme the value was read from.                                         *)
(***************************************************************************)
EXTENDS Integers, Sequences, FiniteSets, TLC

VARIABLES mode, input, pc, iter, reply, result, norm, calls, replies, out

vars == <<mode, input, pc, iter, reply, result, norm, calls, replies, out>>

(***************************************************************************)
(* Characters and Python values                                            *)
(***************************************************************************)

\* whitespace skipped by json.loads (json.decoder.WHITESPACE)
JsonWhitespace == {" ", "\t", "\n", "\r"}

\* whitespace of str.strip / str.lstrip and of \s in a str pattern
PyWhitespace == {" ", "\t", "\n", "\r", "\f"}

\* characters json's scanstring rejects inside a string literal (strict)
ControlChars == {"\t", "\n", "\r", "\f"}

Digits == {"0", "1", "2", "3", "4", "5", "6", "7", "8", "9"}

HexDigits == Digits \cup {"a", "b", "c", "d", "e", "f", "A", "B", "C", "D", "E", "F"}

Str(s) == [k |-> "str", s |-> s]

PyVal(kind, lexeme) == [k |-> kind, s |-> lexeme]

EmptyStr == Str(<<>>)

Min(S) == CHOOSE x \in S : \A y \in S : x <= y

\* text[a:b] of Python on 1-based positions a..b-1
Slice(s, a, b) == IF b <= a THEN <<>> ELSE SubSeq(s, a, b - 1)

\* s.startswith(lit) at position i
MatchAt(s, i, lit) ==
    /\ i + Len(lit) - 1 <= Len(s)
    /\ \A j \in 1..Len(lit) : s[i + j - 1] = lit[j]

\* position after the run of characters of W that starts at position i
SkipSet(s, i, W) == Min({j \in i..(Len(s) + 1) : j = Len(s) + 1 \/ s[j] \notin W})

\* str.lstrip()
LStrip(s) == Slice(s, SkipSet(s, 1, PyWhitespace), Len(s) + 1)

\* no stripping at all: reply in place of reply.strip()
StripNothing(s) == s

\* str.strip()
Strip(s) ==
    LET a == SkipSet(s, 1, PyWhitespace)
        b == IF a > Len(s) THEN a
             ELSE 1 + CHOOSE j \in a..Len(s) :
                        /\ s[j] \notin PyWhitespace
                        /\ \A m \in (j + 1)..Len(s) : s[m] \in PyWhitespace
    IN Slice(s, a, b)

\* truth value of a Python value, as tested by `if result["error"]`
NumIsZero(lex) ==
    LET stop == Min({j \in 1..(Len(lex) + 1) : j = Len(lex) + 1 \/ lex[j] \in {"e", "E"}})
    IN /\ lex # <<"N", "a", "N">>
       /\ \A j \in 1..(stop - 1) : lex[j] \in {"0", "-", "."}

Truthy(v) ==
    CASE v.k = "str" -> v.s # <<>>
      [] v.k = "num" -> ~NumIsZero(v.s)
      [] v.k = "null" -> FALSE
      [] v.k = "bool" -> v.s = <<"t", "r", "u", "e">>
      [] v.k = "list" -> v.s[SkipSet(v.s, 2, JsonWhitespace)] # "]"
      [] v.k = "dict" -> v.s[SkipSet(v.s, 2, JsonWhitespace)] # "}"

(***************************************************************************)
(* json.loads, the decoder of the Python standard library the source       *)
(* calls.  Every scanning operator returns [ok, end, val, pairs]: ok is    *)
(* FALSE where the library raises JSONDecodeError, end is the position     *)
(* after the value, pairs are the (key, value) pairs of an object in       *)
(* source order.                                                           *)
(***************************************************************************)

ScanFail == [ok |-> FALSE, end |-> 0, val |-> PyVal("null", <<>>), pairs |-> <<>>]

Scanned(e, v) == [ok |-> TRUE, end |-> e, val |-> v, pairs |-> <<>>]

\* json.decoder.BACKSLASH: the character an escape sequence stands for
Backslash(c) ==
    CASE c = "\"" -> "\""
      [] c = "\\" -> "\\"
      [] c = "/" -> "/"
      [] c = "b" -> "<BS>"
      [] c = "f" -> "\f"
      [] c = "n" -> "\n"
      [] c = "r" -> "\r"
      [] c = "t" -> "\t"

\* json.decoder.scanstring from the position after the opening quote
RECURSIVE ScanString(_, _, _)
ScanString(s, i, acc) ==
    IF i > Len(s) THEN ScanFail
    ELSE IF s[i] = "\"" THEN Scanned(i + 1, Str(acc))
    ELSE IF s[i] = "\\" THEN
        IF i + 1 > Len(s) THEN ScanFail
        ELSE IF s[i + 1] = "u" THEN
            IF i + 5 <= Len(s) /\ \A j \in 2..5 : s[i + j] \in HexDigits
            THEN ScanString(s, i + 6,
                     Append(acc, "u" \o s[i + 2] \o s[i + 3] \o s[i + 4] \o s[i + 5]))
            ELSE ScanFail
        ELSE IF s[i + 1] \in {"\"", "\\", "/", "b", "f", "n", "r", "t"}
        THEN ScanString(s, i + 2, Append(acc, Backslash(s[i + 1])))
        ELSE ScanFail
    ELSE IF s[i] \in ControlChars THEN ScanFail
    ELSE ScanString(s, i + 1, Append(acc, s[i]))

\* json.scanner.NUMBER_RE: (-?(?:0|[1-9]\d*))(\.\d+)?([eE][-+]?\d+)?
\* the position after the match at i, or 0 when there is none
NumberEnd(s, i) ==
    LET has(j, S) == j <= Len(s) /\ s[j] \in S
        a == IF has(i, {"-"}) THEN i + 1 ELSE i
        b == IF has(a, {"0"}) THEN a + 1
             ELSE IF has(a, Digits) THEN SkipSet(s, a, Digits)
             ELSE 0
        c == IF b # 0 /\ has(b, {"."}) /\ has(b + 1, Digits)
             THEN SkipSet(s, b + 1, Digits) ELSE b
        d == IF c # 0 /\ has(c, {"e", "E"}) THEN
                 LET g == IF has(c + 1, {"-", "+"}) THEN c + 2 ELSE c + 1
                 IN IF has(g, Digits) THEN SkipSet(s, g, Digits) ELSE c
             ELSE c
    IN d

\* the last value of key in pairs, as dict(pairs).get(key, default)
Get(pairs, key, default) ==
    LET hits == {j \in 1..Len(pairs) : pairs[j].key = key}
    IN IF hits = {} THEN default
       ELSE pairs[CHOOSE j \in hits : \A m \in hits : m <= j].val

RECURSIVE ScanOnce(_, _)
RECURSIVE ScanMembers(_, _, _, _)
RECURSIVE ScanElements(_, _, _)

\* json.decoder.JSONObject after the opening brace at position start:
\* i is the position of the quote that opens the next key
ScanMembers(s, start, i, pairs) ==
    IF ~(i <= Len(s) /\ s[i] = "\"") THEN ScanFail
    ELSE
      LET key == ScanString(s, i + 1, <<>>)
      IN IF ~key.ok THEN ScanFail
         ELSE
           LET colon == SkipSet(s, key.end, JsonWhitespace)
           IN IF ~(colon <= Len(s) /\ s[colon] = ":") THEN ScanFail
              ELSE
                LET value == ScanOnce(s, SkipSet(s, colon + 1, JsonWhitespace))
                IN IF ~value.ok THEN ScanFail
                   ELSE
                     LET next == SkipSet(s, value.end, JsonWhitespace)
                         more == Append(pairs, [key |-> key.val.s, val |-> value.val])
                     IN IF next > Len(s) THEN ScanFail
                        ELSE IF s[next] = "}"
                        THEN [ok |-> TRUE, end |-> next + 1,
                              val |-> PyVal("dict", Slice(s, start, next + 1)),
                              pairs |-> more]
                        ELSE IF s[next] = ","
                        THEN ScanMembers(s, start,
                                 SkipSet(s, next + 1, JsonWhitespace), more)
                        ELSE ScanFail

\* json.decoder.JSONArray after the opening bracket at position start:
\* i is the position of the next element
ScanElements(s, start, i) ==
    LET value == ScanOnce(s, i)
    IN IF ~value.ok THEN ScanFail
       ELSE
         LET next == SkipSet(s, value.end, JsonWhitespace)
         IN IF next > Len(s) THEN ScanFail
            ELSE IF s[next] = "]"
            THEN Scanned(next + 1, PyVal("list", Slice(s, start, next + 1)))
            ELSE IF s[next] = ","
            THEN ScanElements(s, start, SkipSet(s, next + 1, JsonWhitespace))
            ELSE ScanFail

\* json.scanner.py_make_scanner._scan_once
ScanOnce(s, i) ==
    IF i > Len(s) THEN ScanFail
    ELSE IF s[i] = "\"" THEN ScanString(s, i + 1, <<>>)
    ELSE IF s[i] = "{" THEN
        LET first == SkipSet(s, i + 1, JsonWhitespace)
        IN IF first <= Len(s) /\ s[first] = "}"
           THEN Scanned(first + 1, PyVal("dict", Slice(s, i, first + 1)))
           ELSE ScanMembers(s, i, first, <<>>)
    ELSE IF s[i] = "[" THEN
        LET first == SkipSet(s, i + 1, JsonWhitespace)
        IN IF first <= Len(s) /\ s[first] = "]"
           THEN Scanned(first + 1, PyVal("list", Slice(s, i, first + 1)))
           ELSE ScanElements(s, i, first)
    ELSE IF MatchAt(s, i, <<"n", "u", "l", "l">>)
    THEN Scanned(i + 4, PyVal("null", Slice(s, i, i + 4)))
    ELSE IF MatchAt(s, i, <<"t", "r", "u", "e">>)
    THEN Scanned(i + 4, PyVal("bool", Slice(s, i, i + 4)))
    ELSE IF MatchAt(s, i, <<"f", "a", "l", "s", "e">>)
    THEN Scanned(i + 5, PyVal("bool", Slice(s, i, i + 5)))
    ELSE IF NumberEnd(s, i) # 0
    THEN Scanned(NumberEnd(s, i), PyVal("num", Slice(s, i, NumberEnd(s, i))))
    ELSE IF MatchAt(s, i, <<"N", "a", "N">>)
    THEN Scanned(i + 3, PyVal("num", Slice(s, i, i + 3)))
    ELSE IF MatchAt(s, i, <<"I", "n", "f", "i", "n", "i", "t", "y">>)
    THEN Scanned(i + 8, PyVal("num", Slice(s, i, i + 8)))
    ELSE IF MatchAt(s, i, <<"-", "I", "n", "f", "i", "n", "i", "t", "y">>)
    THEN Scanned(i + 9, PyVal("num", Slice(s, i, i + 9)))
    ELSE ScanFail

\* json.loads(s): JSONDecoder.decode, which raises on extra data
JsonLoads(s) ==
    LET obj == ScanOnce(s, SkipSet(s, 1, JsonWhitespace))
    IN IF obj.ok /\ SkipSet(s, obj.end, JsonWhitespace) = Len(s) + 1
       THEN obj ELSE ScanFail

(***************************************************************************)
(* Parsing and normalisation helpers                                       *)
(***************************************************************************)

\* esc = not esc and ch == "\\" or (esc and False)
NextEsc(esc, ch) == (~esc /\ ch = "\\") \/ (esc /\ FALSE)

\* in_str = not (ch == '"' and not esc) or in_str, with esc already updated
NextInStr(in_str, esc, ch) == ~(ch = "\"" /\ ~esc) \/ in_str

\* the loop of _first_json_object from position i: the position of the brace
\* that brings depth back to zero, or 0 when the loop runs off the text
RECURSIVE BraceScan(_, _, _, _, _)
BraceScan(text, i, depth, in_str, esc) ==
    IF i > Len(text) THEN 0
    ELSE IF in_str THEN
        BraceScan(text, i + 1, depth,
                  NextInStr(in_str, NextEsc(esc, text[i]), text[i]),
                  NextEsc(esc, text[i]))
    ELSE IF text[i] = "\"" THEN BraceScan(text, i + 1, depth, TRUE, esc)
    ELSE IF text[i] = "{" THEN BraceScan(text, i + 1, depth + 1, in_str, esc)
    ELSE IF text[i] = "}" THEN
        IF depth - 1 = 0 THEN i
        ELSE BraceScan(text, i + 1, depth - 1, in_str, esc)
    ELSE BraceScan(text, i + 1, depth, in_str, esc)

\* text.find("{"), 0 for -1
FindBrace(text) ==
    IF \E j \in 1..Len(text) : text[j] = "{"
    THEN Min({j \in 1..Len(text) : text[j] = "{"})
    ELSE 0

\* the text[start : i + 1] that _first_json_object hands to json.loads,
\* <<>> when it raises before that
BalancedSlice(text) ==
    LET start == FindBrace(text)
        stop == IF start = 0 THEN 0 ELSE BraceScan(text, start, 0, FALSE, FALSE)
    IN IF stop = 0 THEN <<>> ELSE Slice(text, start, stop + 1)

\* _first_json_object(text); ok is FALSE where it raises JSONDecodeError
first_json_object(text) ==
    IF BalancedSlice(text) = <<>> THEN ScanFail
    ELSE JsonLoads(BalancedSlice(text))

\* the character U+0060, which a TLA+ string literal cannot hold
Backquote == "<BQ>"

\* the three characters that open or close a fenced block
Fence == <<Backquote, Backquote, Backquote>>

\* the match of ^\s*```(?:json)?\s* : the position after it, 0 for no match
LeadingFenceEnd(s) ==
    LET a == SkipSet(s, 1, PyWhitespace)
        b == IF MatchAt(s, a + 3, <<"j", "s", "o", "n">>) THEN a + 7 ELSE a + 3
    IN IF MatchAt(s, a, Fence) THEN SkipSet(s, b, PyWhitespace) ELSE 0

\* \s*```$ matches at position p: $ is the end of the text or the position
\* before a newline that ends the text
TrailingFenceAt(s, p) ==
    LET q == SkipSet(s, p, PyWhitespace)
    IN /\ MatchAt(s, q, Fence)
       /\ \/ q + 3 = Len(s) + 1
          \/ q + 3 = Len(s) /\ s[Len(s)] = "\n"

\* re.sub(r"^\s*```(?:json)?\s*|\s*```$", "", reply, flags=re.DOTALL)
Unfence(s) ==
    LET from == IF LeadingFenceEnd(s) = 0 THEN 1 ELSE LeadingFenceEnd(s)
        hits == {p \in from..Len(s) : TrailingFenceAt(s, p)}
    IN IF hits = {} THEN Slice(s, from, Len(s) + 1)
       ELSE Slice(s, from, Min(hits))
            \o Slice(s, SkipSet(s, Min(hits), PyWhitespace) + 3, Len(s) + 1)

SummaryKey == <<"s", "u", "m", "m", "a", "r", "y">>

ErrorKey == <<"e", "r", "r", "o", "r">>

\* a return of parse_and_normalize_reply; via names the scenario that returned
Returned(summary, error, via) ==
    [raised |-> FALSE, msg |-> <<>>, via |-> via,
     value |-> [summary |-> summary, error |-> error]]

\* an exception that leaves parse_and_normalize_reply
Raised(msg, via) ==
    [raised |-> TRUE, msg |-> msg, via |-> via,
     value |-> [summary |-> EmptyStr, error |-> EmptyStr]]

\* {"summary": data.get("summary", ""), "error": data.get("error", "")}:
\* only a dict has get, any other value raises AttributeError
Extract(data, via) ==
    IF data.val.k = "dict"
    THEN Returned(Get(data.pairs, SummaryKey, EmptyStr),
                  Get(data.pairs, ErrorKey, EmptyStr), via)
    ELSE Raised(<<"object has no attribute get">>, via)

\* the fallback with its two fields exchanged
PlainTextAsError(txt) == Returned(EmptyStr, Str(Strip(txt)), "plain")

\* the fallback that also reports the last parsing failure
PlainTextWithLastErr(txt) ==
    Returned(Str(Strip(txt)), Str(<<"embedded object failed">>), "plain")

\* the plain-text fallback: {"summary": reply.strip(), "error": ""}
PlainText(txt) == Returned(Str(Strip(txt)), EmptyStr, "plain")

\* the guard without lstrip: reply.startswith("{")
DirectGuardNoStrip(txt) == MatchAt(txt, 1, <<"{">>)

\* reply.lstrip().startswith("{")
DirectGuard(txt) == MatchAt(LStrip(txt), 1, <<"{">>)

parse_and_normalize_reply(txt) ==
    LET direct == JsonLoads(txt)
        unfenced == Unfence(txt)
        fenced == JsonLoads(unfenced)
        embedded == first_json_object(txt)
        \* last_err at line 113: the embedded scan has always failed by then
        last_err == "embedded object failed"
    IN IF DirectGuard(txt) /\ direct.ok THEN Extract(direct, "direct")
       ELSE IF unfenced # txt /\ fenced.ok THEN Extract(fenced, "fenced")
       ELSE IF embedded.ok THEN Extract(embedded, "embedded")
       ELSE IF Strip(txt) # <<>>
       THEN PlainText(txt)
       ELSE Returned(EmptyStr, Str(<<last_err>>), "terminal")

(***************************************************************************)
(* Texts the model feeds in                                                *)
(***************************************************************************)

\* the longest core text enumerated character by character
MaxLen == 3

Quoted(s) == <<"\"">> \o s \o <<"\"">>

\* the JSON text {"summary":sv,"error":ev}
Obj(sv, ev) ==
    <<"{">> \o Quoted(SummaryKey) \o <<":">> \o sv \o <<",">>
            \o Quoted(ErrorKey) \o <<":">> \o ev \o <<"}">>

\* the JSON text {key:v}
Obj1(key, v) == <<"{">> \o Quoted(key) \o <<":">> \o v \o <<"}">>

Ok == <<"o", "k">>

Bad == <<"b", "a", "d">>

Json == <<"j", "s", "o", "n">>

Null == <<"n", "u", "l", "l">>

Prose == <<"S", "u", "r", "e", ":", " ">>

\* {"summary":"ok","error":""}
OkReply == Obj(Quoted(Ok), Quoted(<<>>))

\* {summary: missing quotes}
MalformedReply ==
    <<"{">> \o SummaryKey \o <<":", " ", "m", "i", "s", "s", "i", "n", "g", " ",
                               "q", "u", "o", "t", "e", "s", "}">>

\* whole JSON objects an agent may send
ObjectReplies ==
    { OkReply,
      Obj(Quoted(<<"x">>), Quoted(<<>>)),
      Obj(Quoted(<<>>), Quoted(Bad)),
      Obj(Quoted(<<"x">>), Quoted(Bad)),
      Obj(Quoted(<<"x">>), Null),
      Obj(Quoted(<<"x">>), <<"1">>),
      Obj(<<"1">>, <<"0">>),
      Obj1(SummaryKey, Quoted(<<"x">>)),
      Obj1(ErrorKey, Quoted(Bad)),
      Obj1(<<"a">>, Quoted(<<"}">>)),
      <<" ">> \o Obj1(ErrorKey, Quoted(Bad)) \o <<"\n">>,
      <<"{", "}">> }

\* replies that are not a whole JSON object
OtherReplies ==
    { MalformedReply,
      <<"{", "x", "}">>,
      <<"{", "}", "{", "}">>,
      <<"{">>,
      Ok,
      Prose \o OkReply,
      Prose \o Obj(Quoted(<<"x">>), Quoted(Bad)),
      Ok \o <<" ", "{", "}", " ">> \o Ok,
      <<>>,
      <<" ", "\n">>,
      Fence \o Json \o <<"\n">> \o OkReply \o <<"\n">> \o Fence,
      Fence \o Obj1(ErrorKey, Quoted(Bad)) \o Fence \o <<"\n">>,
      Fence \o <<"[", "1", "]">> \o Fence,
      Fence \o <<"1">>,
      Fence \o Ok \o Fence }

\* the replies the agent capability returns to the coordinator
Replies == ObjectReplies \cup OtherReplies

\* str(err) of the exceptions agent.send raises; an exception raised
\* without arguments has the empty text
ExcMessages == {<<>>, <<"agent disconnected">>}

\* the texts standard input holds
StdinTexts ==
    { <<"[", "{", "}", "]">>, <<"[", "]">>, <<"{", "}">>, <<"1">>,
      Quoted(Ok), <<"[">>, <<>> }

Modes == {"--summarize", "piped", "tty"}

(***************************************************************************)
(* Agent runtime: main and summarise                                       *)
(***************************************************************************)

Unset == <<"<unset>">>

None == PyVal("null", <<>>)

NoResult == [summary |-> None, error |-> None]

NoNorm == [raised |-> FALSE, msg |-> <<>>, via |-> "none", value |-> NoResult]

InitialPrompt == "Please summarise the following knowledge-graph segment"

CorrectivePrompt == "Respond ONLY with valid JSON"

\* range(2)
LoopRounds == 2

\* {"summary": "", "error": str(err)} of the except clauses of main
ErrorResult(msg) == [summary |-> EmptyStr, error |-> Str(msg)]

\* the return after the loop
UnparsableTwice ==
    [summary |-> EmptyStr, error |-> Str(<<"agent returned unparsable output twice">>)]

\* the test on the wrong field: if result["summary"]
NeedsCorrectionBySummary(res) == Truthy(res.summary)

\* the test inverted: if not result["error"]
NeedsCorrectionInverted(res) == ~Truthy(res.error)

\* if result["error"]
NeedsCorrection(res) == Truthy(res.error)

\* not isinstance(data, list) or not data
NotNodeList(data) == data.val.k # "list" \/ ~Truthy(data.val)

\* the result computed and never printed
EmitNothing(rec) == out' = out

\* print(json.dumps(...)): one record written to standard output
Emit(rec) == out' = Append(out, rec)

Init ==
    /\ mode \in Modes
    /\ input \in StdinTexts
    /\ pc = "main"
    /\ iter = 0
    /\ reply = Unset
    /\ result = NoResult
    /\ norm = NoNorm
    /\ calls = <<>>
    /\ replies = <<>>
    /\ out = <<>>

\* main with --summarize in sys.argv, up to the call of summarise
main_summarize ==
    /\ pc = "main"
    /\ mode = "--summarize"
    /\ IF ~JsonLoads(input).ok
       THEN Emit(ErrorResult(<<"JSONDecodeError">>)) /\ pc' = "done"
       ELSE IF NotNodeList(JsonLoads(input))
       THEN /\ Emit(ErrorResult(<<"Input must be a non-empty JSON array of nodes">>))
            /\ pc' = "done"
       ELSE pc' = "send" /\ out' = out
    /\ UNCHANGED <<mode, input, iter, reply, result, norm, calls, replies>>

\* main without the flag and with piped standard input
main_piped ==
    /\ pc = "main"
    /\ mode = "piped"
    /\ IF ~JsonLoads(input).ok
       THEN Emit(ErrorResult(<<"JSONDecodeError">>)) /\ pc' = "done"
       ELSE pc' = "send" /\ out' = out
    /\ UNCHANGED <<mode, input, iter, reply, result, norm, calls, replies>>

\* main without the flag on a terminal
main_interactive ==
    /\ pc = "main"
    /\ mode = "tty"
    /\ pc' = "interactive"
    /\ UNCHANGED <<mode, input, iter, reply, result, norm, calls, replies, out>>

\* reply = await agent.send(prompt), the agent answers
send_returns ==
    /\ pc = "send"
    /\ \E r \in Replies :
         /\ reply' = r
         /\ replies' = Append(replies, r)
    /\ calls' = Append(calls, InitialPrompt)
    /\ iter' = 0
    /\ pc' = "loop"
    /\ UNCHANGED <<mode, input, result, norm, out>>

\* reply = await agent.send(prompt), the agent raises
send_raises ==
    /\ pc = "send"
    /\ calls' = Append(calls, InitialPrompt)
    /\ \E msg \in ExcMessages : Emit(ErrorResult(msg))
    /\ pc' = "done"
    /\ UNCHANGED <<mode, input, iter, reply, result, norm, replies>>

\* parse_and_normalize_reply(reply) for every reply the agent can send,
\* evaluated once
Normalized == [r \in Replies |-> parse_and_normalize_reply(r)]

\* one pass of the loop body up to its await or its return
loop_body ==
    /\ pc = "loop"
    /\ iter < LoopRounds
    /\ norm' = Normalized[reply]
    /\ IF norm'.raised
       THEN /\ Emit(ErrorResult(norm'.msg))
            /\ pc' = "done"
            /\ result' = result
       ELSE IF NeedsCorrection(norm'.value)
       THEN /\ result' = norm'.value
            /\ pc' = "correct"
            /\ out' = out
       ELSE /\ result' = norm'.value
            /\ Emit(norm'.value)
            /\ pc' = "done"
    /\ UNCHANGED <<mode, input, iter, reply, calls, replies>>

\* the state after the corrective await: the next pass of the loop, or the
\* return that follows the loop
AfterCorrection ==
    IF iter + 1 < LoopRounds
    THEN pc' = "loop" /\ out' = out
    ELSE Emit(UnparsableTwice) /\ pc' = "done"

\* reply = await agent.send(corrective prompt), the agent answers
correct_returns ==
    /\ pc = "correct"
    /\ \E r \in Replies :
         /\ reply' = r
         /\ replies' = Append(replies, r)
    /\ calls' = Append(calls, CorrectivePrompt)
    /\ iter' = iter + 1
    /\ AfterCorrection
    /\ UNCHANGED <<mode, input, result, norm>>

\* reply = await agent.send(corrective prompt), the agent raises
correct_raises ==
    /\ pc = "correct"
    /\ calls' = Append(calls, CorrectivePrompt)
    /\ \E msg \in ExcMessages : Emit(ErrorResult(msg))
    /\ pc' = "done"
    /\ UNCHANGED <<mode, input, iter, reply, result, norm, replies>>

Next ==
    \/ main_summarize
    \/ main_piped
    \/ main_interactive
    \/ send_returns
    \/ send_raises
    \/ loop_body
    \/ correct_returns
    \/ correct_raises

Spec == Init /\ [][Next]_vars

\* the program keeps running, and every agent call returns or raises
LiveSpec == Spec /\ WF_vars(Next)

(***************************************************************************)
(* The normaliser on its own: parse_and_normalize_reply applied to one     *)
(* text                                                                    *)
(***************************************************************************)

CoreAlphabet == {"{", "}", "\"", "\\", " ", "x", "1", Backquote}

\* every text over CoreAlphabet of at most MaxLen characters
CoreTexts == UNION {[1..n -> CoreAlphabet] : n \in 0..MaxLen}

\* the opening line of a fenced block: no tag, the tag json, the tag js
FenceOpenings == {Fence, Fence \o Json \o <<"\n">>, Fence \o <<"j", "s", "\n">>}

\* the closing line of a fenced block
FenceClosings == {Fence, <<"\n">> \o Fence \o <<"\n">>}

Prefixes == {<<>>, <<" ">>, Prose} \cup FenceOpenings

Suffixes == {<<>>, <<" ">>} \cup FenceClosings

NormInputs ==
    Replies \cup
    {pre \o core \o suf : pre \in Prefixes, core \in CoreTexts \cup ObjectReplies,
                          suf \in Suffixes}

InitNorm ==
    /\ mode = "tty"
    /\ input = <<>>
    /\ pc = "normalize"
    /\ iter = 0
    /\ reply \in NormInputs
    /\ result = NoResult
    /\ norm = NoNorm
    /\ calls = <<>>
    /\ replies = <<>>
    /\ out = <<>>

\* a call of parse_and_normalize_reply(reply)
normalize_reply ==
    /\ pc = "normalize"
    /\ norm' = parse_and_normalize_reply(reply)
    /\ pc' = "normalized"
    /\ UNCHANGED <<mode, input, iter, reply, result, calls, replies, out>>

NextNorm == normalize_reply

SpecNorm == InitNorm /\ [][NextNorm]_vars

(***************************************************************************)
(* Properties                                                              *)
(***************************************************************************)

\* a field is non-empty when Python takes it as true, which is the test the
\* coordinator applies to result["error"]; for a string: it is not ""
NonEmpty(v) == Truthy(v)

\* the i-th reply received normalises to a result with a non-empty error
ErrorAt(i) ==
    /\ i <= Len(replies)
    /\ ~parse_and_normalize_reply(replies[i]).raised
    /\ NonEmpty(parse_and_normalize_reply(replies[i]).value.error)

\* the i-th reply received normalises to a result with an empty error
CleanAt(i) ==
    /\ i <= Len(replies)
    /\ ~parse_and_normalize_reply(replies[i]).raised
    /\ ~NonEmpty(parse_and_normalize_reply(replies[i]).value.error)

\* an agent call of this invocation raised, or normalisation raised
Failed == Len(calls) > Len(replies) \/ norm.raised

\* standard input holds a non-empty JSON array
IsNodeList(txt) ==
    /\ JsonLoads(txt).ok
    /\ JsonLoads(txt).val.k = "list"
    /\ Truthy(JsonLoads(txt).val)

\* the text is, as a whole, a JSON object
IsJsonObject(txt) == JsonLoads(txt).ok /\ JsonLoads(txt).val.k = "dict"

\* C1: one invocation of summarise calls the agent at most twice, the second
\* time exactly when the first reply normalises to a non-empty error.
C1_AtMostTwoCalls ==
    /\ Len(calls) <= 2
    /\ (pc = "done" /\ replies # <<>>) => (Len(calls) = 2 <=> ErrorAt(1))

\* C2: on both non-interactive paths, input that is not a non-empty array
\* gives a result with empty summary and non-empty error and no agent call.
C2_InvalidInputRejected ==
    (mode # "tty" /\ ~IsNodeList(input)) =>
        /\ calls = <<>>
        /\ pc = "done" =>
              /\ Len(out) = 1
              /\ out[1].summary = EmptyStr
              /\ NonEmpty(out[1].error)

\* C3: when the first and the corrective reply both normalise to a non-empty
\* error, the coordinator returns the fixed "unparsable twice" result.
C3_TerminalAfterTwoErrors ==
    (pc = "done" /\ ErrorAt(1) /\ ErrorAt(2)) => out = <<UnparsableTwice>>

\* C4: when the first reply normalises to an empty error, the agent is called
\* exactly once and the output is the normaliser's result for that reply.
C4_NoCorrectionWithoutError ==
    CleanAt(1) =>
        /\ calls = <<InitialPrompt>>
        /\ pc \in {"loop", "done"}
        /\ pc = "done" => out = <<parse_and_normalize_reply(replies[1]).value>>

C4_Witness ==
    /\ pc = "done"
    /\ replies = <<Ok>>
    /\ norm.via = "plain"
    /\ calls = <<InitialPrompt>>
    /\ out = <<[summary |-> Str(Ok), error |-> EmptyStr]>>

\* the text starts with { and ends with } and is not a JSON object
BraceDelimitedInvalid(txt) ==
    /\ Len(txt) >= 2
    /\ txt[1] = "{"
    /\ txt[Len(txt)] = "}"
    /\ ~IsJsonObject(txt)

\* C5 as stated: a brace-delimited first reply that is not a JSON object is
\* treated as an error, a corrective prompt is sent, and a second reply
\* {"summary":"ok","error":""} becomes the output.
C5_MalformedTriggersCorrection ==
    (pc = "done" /\ replies # <<>> /\ BraceDelimitedInvalid(replies[1])) =>
        /\ Len(calls) = 2
        /\ replies = <<replies[1], OkReply>> =>
              out = <<[summary |-> Str(Ok), error |-> EmptyStr]>>

\* C5 amended: a brace-delimited first reply that is not a JSON object
\* normalises to an empty error, so the agent is called once and the output
\* is the normaliser's result for it; for {summary: missing quotes} that is
\* the reply itself as the summary.
C5_MalformedAcceptedAsText ==
    (pc = "done" /\ replies # <<>> /\ BraceDelimitedInvalid(replies[1])) =>
        /\ calls = <<InitialPrompt>>
        /\ Len(out) = 1
        /\ out[1].error = EmptyStr
        /\ out[1] = parse_and_normalize_reply(replies[1]).value
        /\ replies[1] = MalformedReply => out[1].summary = Str(MalformedReply)

C5_Witness ==
    /\ pc = "done"
    /\ replies = <<MalformedReply>>
    /\ norm.via = "plain"
    /\ out = <<[summary |-> Str(MalformedReply), error |-> EmptyStr]>>

\* C6: when an agent call or normalisation raises, the invocation still
\* emits a result with empty summary and non-empty error.
C6_FailureReported ==
    (pc = "done" /\ Failed) =>
        /\ Len(out) = 1
        /\ out[1].summary = EmptyStr
        /\ NonEmpty(out[1].error)

\* C7: every emitted result has at most one of summary and error non-empty,
\* and an emitted non-empty error comes with an empty summary.
C7_OneFieldPopulated ==
    \A i \in 1..Len(out) :
        /\ ~(NonEmpty(out[i].summary) /\ NonEmpty(out[i].error))
        /\ NonEmpty(out[i].error) => out[i].summary = EmptyStr

C7_Witness ==
    /\ pc = "done"
    /\ Len(replies) = 3
    /\ NonEmpty(parse_and_normalize_reply(replies[1]).value.summary)
    /\ NonEmpty(parse_and_normalize_reply(replies[1]).value.error)
    /\ out = <<UnparsableTwice>>

\* C8: a reply that is as a whole a JSON object is returned by the direct
\* parse with exactly its summary and error values, "" for a missing key,
\* also when its error is non-empty.
C8_DirectParseExact ==
    (pc = "normalized" /\ IsJsonObject(reply)) =>
        /\ ~norm.raised
        /\ norm.via = "direct"
        /\ norm.value.summary = Get(JsonLoads(reply).pairs, SummaryKey, EmptyStr)
        /\ norm.value.error = Get(JsonLoads(reply).pairs, ErrorKey, EmptyStr)

C8_Witness ==
    /\ pc = "normalized"
    /\ reply = <<" ">> \o Obj1(ErrorKey, Quoted(Bad)) \o <<"\n">>
    /\ norm.via = "direct"
    /\ norm.value = [summary |-> EmptyStr, error |-> Str(Bad)]

\* the text is prose without a brace followed by one JSON object that has a
\* string under "summary"
ProseThenObject(txt) ==
    /\ FindBrace(txt) > 1
    /\ Strip(Slice(txt, 1, FindBrace(txt))) # <<>>
    /\ IsJsonObject(Slice(txt, FindBrace(txt), Len(txt) + 1))
    /\ Get(JsonLoads(Slice(txt, FindBrace(txt), Len(txt) + 1)).pairs,
           SummaryKey, None).k = "str"

\* C9: for prose followed by a single JSON object whose summary is x, the
\* normaliser returns summary x, taken from the embedded object.
C9_EmbeddedSummary ==
    (pc = "normalized" /\ ProseThenObject(reply)) =>
        /\ ~norm.raised
        /\ norm.value.summary =
               Get(JsonLoads(Slice(reply, FindBrace(reply), Len(reply) + 1)).pairs,
                   SummaryKey, EmptyStr)

\* C10: a reply that is not blank and holds no { comes back as its trimmed
\* text with an empty error, also when it begins or ends with a fence.
C10_PlainTextWithoutBrace ==
    (pc = "normalized" /\ FindBrace(reply) = 0 /\ Strip(reply) # <<>>) =>
        /\ ~norm.raised
        /\ norm.value = [summary |-> Str(Strip(reply)), error |-> EmptyStr]

\* the text is empty or holds whitespace only
IsBlank(txt) == \A j \in 1..Len(txt) : txt[j] \in {" ", "\t", "\n", "\r", "\f"}

\* C11: the empty reply and every whitespace-only reply give an empty summary
\* and a non-empty diagnostic error, and no other reply makes the normaliser
\* write an error text of its own.
C11_BlankReplyIsTerminal ==
    pc = "normalized" =>
        /\ IsBlank(reply) =>
              /\ ~norm.raised
              /\ norm.via = "terminal"
              /\ norm.value.summary = EmptyStr
              /\ norm.value.error.k = "str"
              /\ NonEmpty(norm.value.error)
        /\ norm.via = "terminal" => IsBlank(reply)

C11_Witness ==
    /\ pc = "normalized"
    /\ reply = <<" ", " ">>
    /\ norm.via = "terminal"
    /\ norm.value = [summary |-> EmptyStr, error |-> Str(<<"embedded object failed">>)]

\* C12: the normaliser is total: for every text it returns a record with the
\* keys summary and error and never raises.
C12_NormalizerTotal ==
    pc = "normalized" =>
        /\ ~norm.raised
        /\ DOMAIN norm.value = {"summary", "error"}

\* C13: both fields of every result the normaliser returns are strings; a
\* parsed value of another type is never passed through unchanged.
C13_FieldsAreStrings ==
    (pc = "normalized" /\ ~norm.raised) =>
        /\ norm.value.summary.k = "str"
        /\ norm.value.error.k = "str"

\* the texts b for which txt is b wrapped in a fenced block
Wrapped(txt) ==
    {Slice(txt, Len(oc[1]) + 1, Len(txt) - Len(oc[2]) + 1) :
        oc \in {x \in FenceOpenings \X FenceClosings :
                   /\ Len(x[1]) + Len(x[2]) <= Len(txt)
                   /\ MatchAt(txt, 1, x[1])
                   /\ MatchAt(txt, Len(txt) - Len(x[2]) + 1, x[2])}}

\* C14: for a JSON object wrapped in a fenced block, with or without a
\* language tag, the normaliser returns what it returns for the unwrapped
\* JSON text.
C14_FencedEqualsUnwrapped ==
    pc = "normalized" =>
        \A b \in Wrapped(reply) :
            IsJsonObject(b) =>
                /\ norm.raised = parse_and_normalize_reply(b).raised
                /\ norm.value = parse_and_normalize_reply(b).value

\* the scan C15 describes, from position i: braces inside a string do not
\* count, an unescaped quote ends the string, an escaped quote does not; the
\* position of the brace that closes the first one, or 0
RECURSIVE MatchingBrace(_, _, _, _, _)
MatchingBrace(text, i, depth, in_str, esc) ==
    IF i > Len(text) THEN 0
    ELSE IF in_str THEN
        IF esc THEN MatchingBrace(text, i + 1, depth, TRUE, FALSE)
        ELSE IF text[i] = "\\" THEN MatchingBrace(text, i + 1, depth, TRUE, TRUE)
        ELSE MatchingBrace(text, i + 1, depth, text[i] # "\"", FALSE)
    ELSE IF text[i] = "\"" THEN MatchingBrace(text, i + 1, depth, TRUE, FALSE)
    ELSE IF text[i] = "{" THEN MatchingBrace(text, i + 1, depth + 1, FALSE, FALSE)
    ELSE IF text[i] = "}" THEN
        IF depth = 1 THEN i
        ELSE MatchingBrace(text, i + 1, depth - 1, FALSE, FALSE)
    ELSE MatchingBrace(text, i + 1, depth, FALSE, FALSE)

\* the substring from the first { to its matching }, <<>> when there is none
MatchedObject(text) ==
    LET start == FindBrace(text)
        stop == IF start = 0 THEN 0 ELSE MatchingBrace(text, start, 0, FALSE, FALSE)
    IN IF stop = 0 THEN <<>> ELSE Slice(text, start, stop + 1)

\* C15: the scanner of _first_json_object selects the substring from the
\* first { to its matching } at depth zero, not counting braces inside
\* strings and honouring escaped quotes; on {"a":"}"} it selects the whole
\* text.
C15_ScannerSelectsMatchedObject ==
    pc = "normalized" => BalancedSlice(reply) = MatchedObject(reply)

\* C16: every reply the coordinator receives is normalised before the
\* invocation ends: the second normalising step leads directly to done, and
\* no further reply is awaited after it.
C16_SecondNormalizingEnds ==
    [][(pc = "loop" /\ iter = 1) => pc' = "done"]_vars

\* C17: provided every agent call returns or fails, a non-interactive
\* invocation terminates having emitted exactly one result record.
C17_TerminatesWithOneResult ==
    /\ [](Len(out) <= 1)
    /\ (mode # "tty") ~> (pc = "done" /\ Len(out) = 1)

C17_Witness ==
    /\ mode = "piped"
    /\ pc = "done"
    /\ Len(calls) = 3
    /\ Len(replies) = 3
    /\ out = <<UnparsableTwice>>

\* the JSON object the normaliser reads its result from: the whole reply, the
\* fence-stripped reply or the embedded object; ScanFail when none parses
ParsedObject(txt) ==
    IF DirectGuard(txt) /\ IsJsonObject(txt) THEN JsonLoads(txt)
    ELSE IF Unfence(txt) # txt /\ IsJsonObject(Unfence(txt)) THEN JsonLoads(Unfence(txt))
    ELSE first_json_object(txt)

\* C18 as stated: every result the normaliser returns has at most one of
\* summary and error non-empty, also for a JSON object that sets both.
C18_NormalizerOneField ==
    (pc = "normalized" /\ ~norm.raised) =>
        ~(NonEmpty(norm.value.summary) /\ NonEmpty(norm.value.error))

\* C18 amended: a result of the normaliser has both fields non-empty only
\* when it is read from a parsed JSON object that itself sets both fields.
C18_BothOnlyFromObject ==
    (pc = "normalized" /\ ~norm.raised
        /\ NonEmpty(norm.value.summary) /\ NonEmpty(norm.value.error)) =>
        /\ norm.via \in {"direct", "fenced", "embedded"}
        /\ ParsedObject(reply).ok
        /\ norm.value.summary = Get(ParsedObject(reply).pairs, SummaryKey, EmptyStr)
        /\ norm.value.error = Get(ParsedObject(reply).pairs, ErrorKey, EmptyStr)

C18_Witness ==
    /\ pc = "normalized"
    /\ reply = Obj(Quoted(<<"x">>), Quoted(Bad))
    /\ norm.via = "direct"
    /\ norm.value = [summary |-> Str(<<"x">>), error |-> Str(Bad)]

\* C19: the normaliser returns a non-empty error only for a blank reply or
\* when a parsed JSON object has a non-empty error of its own; a reply that
\* is not blank and in which no JSON object parses is accepted as a
\* plain-text summary.
C19_ErrorOnlyBlankOrObject ==
    pc = "normalized" =>
        /\ (~norm.raised /\ NonEmpty(norm.value.error)) =>
              \/ Strip(reply) = <<>>
              \/ /\ ParsedObject(reply).ok
                 /\ norm.value.error = Get(ParsedObject(reply).pairs, ErrorKey, EmptyStr)
        /\ (Strip(reply) # <<>> /\ ~ParsedObject(reply).ok) =>
              /\ ~norm.raised
              /\ norm.via = "plain"
              /\ norm.value = [summary |-> Str(Strip(reply)), error |-> EmptyStr]

====
